---- MODULE Spec2Model ----
(***************************************************************************)
(* A model of ytdlp-emby-organise (src/main.rs): the scan of a source      *)
(* directory into a catalogue, the partition of each channel into seasons, *)
(* and the projection of the seasons onto a target tree of directories and *)
(* symbolic links, with its preview (dry-run) mode.                        *)
(*                                                                         *)
(* Text is a sequence of tokens.  A token is one character, or a run of    *)
(* characters that holds neither "/" nor "." ("info", "json", "Season ").  *)
(* "/" and "." are always tokens of their own, so that splitting a path,   *)
(* finding an extension and replacing "/" work as they do on the string.   *)
(* The token "E9" stands for the single character U+00E9, whose UTF-8      *)
(* encoding is two bytes long.                                             *)
(* A path is a sequence of segments, each a text; every path is absolute,  *)
(* <<>> is the root.  An optional value is <<>> (None) or <<x>> (Some).    *)
(***************************************************************************)
EXTENDS Integers, Sequences, FiniteSets, TLC

VARIABLES
    source,     \* the files of the source directory, in enumeration order
    target,     \* cli.target: <<>> or <<path>>
    dry_run,    \* cli.dry_run of the current run
    run,        \* 1: the first run of the tool, 2: a second run over the same tree
    pc,         \* where main is: scan, seasons, chan, season, file, done, error, panic
    scanIdx,    \* how many candidates VideoCatalogue::build has taken from its iterator
    raw,        \* VideoCatalogue.raw
    structure,  \* the Vec<SeasonedStructure> of build_seasons, in HashMap order
    ci, si, vi, fi, \* the positions of the loops over channels, seasons, videos, files
    fs,         \* the file system below the root, source files left out: path -> entry
    fs0,        \* fs when the first run started
    prevFs,     \* fs before the last directory or link step
    lastOp,     \* the last directory or link step and how it ended
    denied,     \* the paths at which the system refuses to create an entry
    log,        \* the "Creating directory" and "Linking" lines printed by this run
    hist        \* <<>> during the first run; then what the first run left

vars == <<source, target, dry_run, run, pc, scanIdx, raw, structure,
          ci, si, vi, fi, fs, fs0, prevFs, lastOp, denied, log, hist>>

(***************************************************************************)
(* Bounds of the model.                                                    *)
(***************************************************************************)
\* the most videos (metadata files with their sidecars) in the source directory
MaxVideos == 2
\* the most records in the list handed to build_channel in SpecPart
MaxRecords == 3
\* the largest date, in ticks, of a record handed to build_channel in SpecPart
MaxTick == 4
\* ticks in a calendar year: the model's calendar (chrono's has 31,536,000
\* or 31,622,400 seconds in a year)
TicksPerYear == 2

None == <<>>
Some(x) == <<x>>

(***************************************************************************)
(* Strings.                                                                *)
(***************************************************************************)
\* the UTF-8 length of one character
Utf8Width(c) == IF c = "E9" THEN 2 ELSE 1

RECURSIVE str_len(_)
\* str::len: the length in bytes
str_len(s) == IF s = <<>> THEN 0 ELSE Utf8Width(Head(s)) + str_len(Tail(s))

\* str::replace(from, to) for a one-character pattern
replace(s, from, to) == [i \in 1..Len(s) |-> IF s[i] = from THEN to ELSE s[i]]

\* str::ends_with
ends_with(s, suf) ==
    /\ Len(s) >= Len(suf)
    /\ SubSeq(s, Len(s) - Len(suf) + 1, Len(s)) = suf

(***************************************************************************)
(* Paths (std::path).                                                      *)
(***************************************************************************)
Max(S) == CHOOSE x \in S : \A y \in S : y <= x

\* the place of the last "." of a file name, 0 when it has none
LastDot(name) == Max({0} \cup {i \in 1..Len(name) : name[i] = "."})

\* Path::extension of a file name: None without a ".", and None when the only
\* "." is the first character
extension(name) ==
    IF LastDot(name) <= 1 THEN None
    ELSE Some(SubSeq(name, LastDot(name) + 1, Len(name)))

\* Path::file_stem of a file name
file_stem(name) ==
    IF LastDot(name) <= 1 THEN name
    ELSE SubSeq(name, 1, LastDot(name) - 1)

RECURSIVE components(_)
\* the segments of a path given as text: split at "/", empty segments dropped
components(s) ==
    IF s = <<>> THEN <<>>
    ELSE IF Head(s) = "/" THEN components(Tail(s))
    ELSE LET n == Max({0} \cup {i \in 1..Len(s) : \A j \in 1..i : s[j] # "/"})
         IN  <<SubSeq(s, 1, n)>> \o components(SubSeq(s, n + 1, Len(s)))

\* a text naming an absolute path
is_absolute(s) == s # <<>> /\ Head(s) = "/"

\* PathBuf::push: an absolute path replaces the buffer, a relative one is appended
push(buf, s) == IF is_absolute(s) THEN components(s) ELSE buf \o components(s)

parent(p) == SubSeq(p, 1, Len(p) - 1)
file_name(p) == p[Len(p)]
IsPrefix(p, q) == Len(p) <= Len(q) /\ SubSeq(q, 1, Len(p)) = p

(***************************************************************************)
(* Dates (chrono), counted in ticks since the epoch.                       *)
(***************************************************************************)
\* Datelike::year, as an offset from the epoch's year
year(t) == t \div TicksPerYear

\* NaiveDate::parse_from_str(upload_date, "%Y%m%d"), then midnight of that
\* day: upload_date is [y, d], year and day of the year; a day the year does
\* not have is a parse error (None)
parse_from_str(u) ==
    IF u.d \in 1..TicksPerYear THEN Some(u.y * TicksPerYear + (u.d - 1)) ELSE None

\* VideoJson::get_date: the timestamp when there is one, else the upload date
\* (every timestamp of the model is one NaiveDateTime::from_timestamp accepts)
get_date(json) ==
    IF json.timestamp # None THEN Some(json.timestamp[1])
    ELSE parse_from_str(json.upload_date)

\* VideoJson::is_short
is_short(json) ==
    IF json.playlist_webpage_url = None THEN FALSE
    ELSE ends_with(json.playlist_webpage_url[1], <<"/", "shorts">>)

\* CatalogueEntry::get_title
get_title(entry) ==
    IF str_len(entry.json.fulltitle) > 1 THEN entry.json.fulltitle ELSE entry.json.title

(***************************************************************************)
(* The source directory: one directory, SourceDir, holding files           *)
(* [name, content]; content is what serde_json makes of the file.          *)
(***************************************************************************)
SourceDir == << <<"src">> >>
info_ext == <<".", "info", ".", "json">>

PathOf(file) == Append(SourceDir, file.name)

\* the candidates of VideoCatalogue::build: the files whose extension is json,
\* in the order WalkDir yields them
RECURSIVE CandidatesOf(_)
CandidatesOf(files) ==
    IF files = <<>> THEN <<>>
    ELSE (IF extension(Head(files).name) = Some(<<"json">>) THEN <<Head(files)>> ELSE <<>>)
         \o CandidatesOf(Tail(files))

RECURSIVE SameStem(_, _)
\* the loop of get_other_files over read_dir: the paths of the files whose stem
\* is `stem`, in enumeration order
SameStem(files, stem) ==
    IF files = <<>> THEN <<>>
    ELSE (IF file_stem(Head(files).name) = stem THEN <<PathOf(Head(files))>> ELSE <<>>)
         \o SameStem(Tail(files), stem)

\* CatalogueEntry::get_other_files
get_other_files(file, files) ==
    IF ~ends_with(file.name, info_ext) THEN <<>>
    ELSE <<PathOf(file)>>
         \o SameStem(files, SubSeq(file.name, 1, Len(file.name) - Len(info_ext)))

\* CatalogueEntry::new: [res |-> "err"], [res |-> "none"] or [res |-> "some", entry]
CatalogueEntry_new(file, files) ==
    LET json == file.content IN
    IF json.type = "bad" THEN [res |-> "err"]
    ELSE IF json.type = "playlist" THEN [res |-> "none"]
    ELSE IF is_short(json) THEN [res |-> "none"]
    ELSE IF get_date(json) = None THEN [res |-> "err"]
    ELSE [res |-> "some",
          entry |-> [date |-> get_date(json)[1],
                     json |-> json,
                     path |-> get_other_files(file, files)]]

(***************************************************************************)
(* The Partitioner.  A season holds references to the catalogue's entries: *)
(* here, their places in raw.                                              *)
(***************************************************************************)
\* the keys of VideoCatalogue::by_channel
ChannelNames == {raw[i].json.channel : i \in 1..Len(raw)}

\* VideoCatalogue::by_channel: the entries of one channel, in the order of raw
by_channel(c) ==
    LET F[n \in 0..Len(raw)] ==
            IF n = 0 THEN <<>>
            ELSE IF raw[n].json.channel = c THEN Append(F[n - 1], n) ELSE F[n - 1]
    IN  F[Len(raw)]

RECURSIVE InsertByDateUnstable(_, _)
\* InsertByDate as an unstable sort may do it: v goes before its equals
InsertByDateUnstable(sorted, v) ==
    IF sorted = <<>> THEN <<v>>
    ELSE IF raw[v].date <= raw[Head(sorted)].date THEN <<v>> \o sorted
    ELSE <<Head(sorted)>> \o InsertByDateUnstable(Tail(sorted), v)

RECURSIVE InsertByDate(_, _)
\* one step of a stable sort: v goes behind every element whose date is not later
InsertByDate(sorted, v) ==
    IF sorted = <<>> THEN <<v>>
    ELSE IF raw[v].date < raw[Head(sorted)].date THEN <<v>> \o sorted
    ELSE <<Head(sorted)>> \o InsertByDate(Tail(sorted), v)

RECURSIVE sort_by_key(_)
\* vids.sort_by_key(|a| a.date): a stable sort
sort_by_key(vids) ==
    IF vids = <<>> THEN <<>>
    ELSE InsertByDate(sort_by_key(SubSeq(vids, 1, Len(vids) - 1)), vids[Len(vids)])

\* the key chunk_by groups on
ChunkKey(v) == year(raw[v].date)

RECURSIVE chunk_by(_)
\* itertools chunk_by: the maximal runs of consecutive elements of equal key
chunk_by(vids) ==
    IF vids = <<>> THEN <<>>
    ELSE LET n == Max({i \in 1..Len(vids) :
                          \A j \in 1..i : ChunkKey(vids[j]) = ChunkKey(vids[1])})
         IN  <<SubSeq(vids, 1, n)>> \o chunk_by(SubSeq(vids, n + 1, Len(vids)))

\* the number of the season made from the chunk enumerate() gives `index`
SeasonNumber(index) == index + 1

\* VideoCatalogue::build_channel
build_channel(name, vids) ==
    LET chunks == chunk_by(sort_by_key(vids))
    IN  [channel_name |-> name,
         seasons |-> [k \in 1..Len(chunks) |->
                         [number |-> SeasonNumber(k - 1), videos |-> chunks[k]]]]

\* the orders a HashMap may yield its keys in
Orders(S) == {o \in [1..Cardinality(S) -> S] : \A i, j \in DOMAIN o : o[i] = o[j] => i = j}

(***************************************************************************)
(* The file system: a function from the paths that exist to their entries. *)
(* The root always exists.  mkdir and symlink look the path up first: a    *)
(* path that exists fails with AlreadyExists, a path below a missing       *)
(* directory with NotFound, a path below a file or link with               *)
(* NotADirectory; only then does the system refuse the creation            *)
(* (permissions, a read-only or full volume): PermissionDenied.            *)
(***************************************************************************)
DirEntry == [kind |-> "dir", to |-> <<>>]
FileEntry == [kind |-> "file", to |-> <<>>]
LinkEntry(src) == [kind |-> "link", to |-> src]

exists(f, p) == p = <<>> \/ p \in DOMAIN f
\* Path::is_dir (no link of the model points at a directory)
is_dir(f, p) == p = <<>> \/ (p \in DOMAIN f /\ f[p].kind = "dir")

\* why a path cannot be created: an ancestor is missing or is no directory
AncestorError(f, p) ==
    IF \E k \in 1..(Len(p) - 1) : exists(f, SubSeq(p, 1, k)) /\ ~is_dir(f, SubSeq(p, 1, k))
    THEN "NotADirectory" ELSE "NotFound"

\* mkdir(2)
mkdir(f, p) ==
    IF exists(f, p) THEN [fs |-> f, res |-> "AlreadyExists"]
    ELSE IF ~is_dir(f, parent(p)) THEN [fs |-> f, res |-> AncestorError(f, p)]
    ELSE IF p \in denied THEN [fs |-> f, res |-> "PermissionDenied"]
    ELSE [fs |-> f @@ (p :> DirEntry), res |-> "Ok"]

RECURSIVE create_dir_all(_, _)
\* std::fs::create_dir_all
create_dir_all(f, p) ==
    IF p = <<>> THEN [fs |-> f, res |-> "Ok"]
    ELSE LET first == mkdir(f, p) IN
         IF first.res = "Ok" THEN first
         ELSE IF first.res # "NotFound"
              THEN (IF is_dir(f, p) THEN [fs |-> f, res |-> "Ok"] ELSE first)
         ELSE LET up == create_dir_all(f, parent(p)) IN
              IF up.res # "Ok" THEN up
              ELSE LET second == mkdir(up.fs, p) IN
                   IF second.res = "Ok" THEN second
                   ELSE IF is_dir(up.fs, p) THEN [fs |-> up.fs, res |-> "Ok"]
                   ELSE second

\* symlink as a forced link (ln -sf) would do it: what is there is replaced
symlink_force(f, src, dst) ==
    IF ~is_dir(f, parent(dst)) THEN [fs |-> f, res |-> AncestorError(f, dst)]
    ELSE IF dst \in denied THEN [fs |-> f, res |-> "PermissionDenied"]
    ELSE [fs |-> (dst :> LinkEntry(src)) @@ f, res |-> "Ok"]

\* std::os::unix::fs::symlink
symlink(f, src, dst) ==
    IF exists(f, dst) THEN [fs |-> f, res |-> "AlreadyExists"]
    ELSE IF ~is_dir(f, parent(dst)) THEN [fs |-> f, res |-> AncestorError(f, dst)]
    ELSE IF dst \in denied THEN [fs |-> f, res |-> "PermissionDenied"]
    ELSE [fs |-> f @@ (dst :> LinkEntry(src)), res |-> "Ok"]

(***************************************************************************)
(* The Projector: DirectoryBuilder, one step of the model for each         *)
(* directory or link step of the code.                                     *)
(***************************************************************************)
TargetBase == << <<"t">> >>

\* verbose as a builder that reports only in preview mode would have it
verbose_off == FALSE

\* DirectoryBuilder.verbose, as DirectoryBuilder::new sets it
verbose == TRUE

\* DirectoryBuilder::new: base is the target with the channel's name pushed
base(c) == push(target[1], structure[c].channel_name)

\* format!("Season {}", season.number)
SeasonName(number) == <<"Season ", ToString(number)>>

\* the season_dir of create_season_directory
season_dir(c, s) == push(base(c), SeasonName(structure[c].seasons[s].number))

\* the base_file_name of link_video_data, before the extension is added
SanitizeTitle(title) == replace(title, "/", "_")

\* the name of the link to `file` in link_video_data; file has an extension
base_file_name(entry, file) ==
    SanitizeTitle(get_title(entry)) \o <<".">> \o extension(file_name(file))[1]

\* DirStepOk with the error of create_dir_all dropped
DirStepOkAlways(res) == TRUE

\* the `?` after create_dir_all: every error ends build
DirStepOk(res) == res = "Ok"

\* LinkStepOk without the arm for AlreadyExists
LinkStepOkStrict(res) == res = "Ok"

\* the match in create_symlink: AlreadyExists is success
LinkStepOk(res) == res \in {"Ok", "AlreadyExists"}

Pos(p, c, s, v, f) == [pc |-> p, ci |-> c, si |-> s, vi |-> v, fi |-> f]

RECURSIVE Norm(_, _)
\* the loops of main, build and link_video_data: from a loop head to the next
\* directory or link step, or to the end of main
Norm(st, p) ==
    CASE p.pc = "chan" ->
            IF p.ci > Len(st) THEN Pos("done", 0, 0, 0, 0) ELSE p
      [] p.pc = "season" ->
            IF p.si > Len(st[p.ci].seasons)
            THEN Norm(st, Pos("chan", p.ci + 1, 0, 0, 0)) ELSE p
      [] p.pc = "video" ->
            IF p.vi > Len(st[p.ci].seasons[p.si].videos)
            THEN Norm(st, Pos("season", p.ci, p.si + 1, 0, 0))
            ELSE Norm(st, Pos("file", p.ci, p.si, p.vi, 1))
      [] p.pc = "file" ->
            IF p.fi > Len(raw[st[p.ci].seasons[p.si].videos[p.vi]].path)
            THEN Norm(st, Pos("video", p.ci, p.si, p.vi + 1, 0)) ELSE p
      [] OTHER -> p

Goto(p) == pc' = p.pc /\ ci' = p.ci /\ si' = p.si /\ vi' = p.vi /\ fi' = p.fi
Halt(p) == pc' = p /\ UNCHANGED <<ci, si, vi, fi>>

NoOp == [kind |-> "none", src |-> <<>>, dst |-> <<>>, res |-> "None"]
Line(op, src, dst) ==
    [op |-> op, chan |-> structure[ci].channel_name, src |-> src, dst |-> dst]
\* println! under `if self.dry_run || self.verbose`
Report(line) == IF dry_run \/ verbose THEN Append(log, line) ELSE log

\* ScanErrorPc as a scan that skips a file it cannot read would have it
ScanErrorPcSkip == "scan"

\* the `?` on CatalogueEntry::new in VideoCatalogue::build: an error ends the run
ScanErrorPc == "error"

\* VideoCatalogue::build: one turn of its loop, or its end
VideoCatalogue_build ==
    /\ pc = "scan"
    /\ LET cands == CandidatesOf(source) IN
       IF scanIdx >= Len(cands)
       THEN /\ Halt("seasons")
            /\ UNCHANGED <<scanIdx, raw>>
       ELSE LET r == CatalogueEntry_new(cands[scanIdx + 1], source) IN
            /\ scanIdx' = scanIdx + 1
            /\ raw' = IF r.res = "some" THEN Append(raw, r.entry) ELSE raw
            /\ Halt(IF r.res = "err" THEN ScanErrorPc ELSE "scan")
    /\ UNCHANGED <<source, target, dry_run, run, structure, fs, fs0, prevFs, lastOp,
                   log, hist, denied>>

\* main: build_seasons, channel after channel in the HashMap's order, then the
\* test of cli.target
build_seasons ==
    /\ pc = "seasons"
    /\ \E o \in Orders(ChannelNames) :
          LET st == [k \in 1..Len(o) |-> build_channel(o[k], by_channel(o[k]))] IN
          /\ structure' = st
          /\ IF target = None THEN Goto(Pos("done", 0, 0, 0, 0))
             ELSE Goto(Norm(st, Pos("chan", 1, 0, 0, 0)))
    /\ UNCHANGED <<source, target, dry_run, run, scanIdx, raw, fs, fs0, prevFs, lastOp,
                   log, hist, denied>>

\* a directory step: the line, then create_dir_all unless this is a preview
DirStep(kind, dst, next) ==
    /\ log' = Report(Line("mkdir", <<>>, dst))
    /\ prevFs' = fs
    /\ IF dry_run
       THEN /\ fs' = fs
            /\ lastOp' = [kind |-> kind, src |-> <<>>, dst |-> dst, res |-> "Preview"]
            /\ Goto(next)
       ELSE LET r == create_dir_all(fs, dst) IN
               /\ fs' = r.fs
               /\ lastOp' = [kind |-> kind, src |-> <<>>, dst |-> dst, res |-> r.res]
               /\ IF DirStepOk(r.res) THEN Goto(next) ELSE Halt("error")
    /\ UNCHANGED <<source, target, dry_run, run, scanIdx, raw, structure, fs0, hist,
                   denied>>

\* DirectoryBuilder::new and create_channel_directory
create_channel_directory ==
    /\ pc = "chan"
    /\ DirStep("chan", base(ci), Norm(structure, Pos("season", ci, 1, 0, 0)))

\* create_season_directory
create_season_directory ==
    /\ pc = "season"
    /\ DirStep("season", season_dir(ci, si), Norm(structure, Pos("video", ci, si, 1, 0)))

\* link_video_data for one file of the video: the link's name, then create_symlink
create_symlink ==
    /\ pc = "file"
    /\ LET entry == raw[structure[ci].seasons[si].videos[vi]]
           file == entry.path[fi]
           next == Norm(structure, Pos("file", ci, si, vi, fi + 1))
       IN
       /\ prevFs' = fs
       /\ IF extension(file_name(file)) = None
          THEN \* file.extension().unwrap() panics
               /\ lastOp' = [kind |-> "link", src |-> file, dst |-> <<>>, res |-> "Panic"]
               /\ Halt("panic")
               /\ UNCHANGED <<fs, log>>
          ELSE LET dst == push(season_dir(ci, si), base_file_name(entry, file)) IN
               /\ log' = Report(Line("link", file, dst))
               /\ IF dry_run
                  THEN /\ fs' = fs
                       /\ lastOp' = [kind |-> "link", src |-> file, dst |-> dst,
                                     res |-> "Preview"]
                       /\ Goto(next)
                  ELSE LET r == symlink(fs, file, dst) IN
                          /\ fs' = r.fs
                          /\ lastOp' = [kind |-> "link", src |-> file, dst |-> dst,
                                        res |-> r.res]
                          /\ IF LinkStepOk(r.res) THEN Goto(next) ELSE Halt("error")
    /\ UNCHANGED <<source, target, dry_run, run, scanIdx, raw, structure, fs0, hist,
                   denied>>

\* the tool is started again, with the same source and target and any --dry-run,
\* after a run with a target that ended with success
Rerun ==
    /\ pc = "done"
    /\ run = 1
    /\ target # None
    /\ run' = 2
    /\ dry_run' \in BOOLEAN
    /\ hist' = Some([dry |-> dry_run, log |-> log, fs |-> fs])
    /\ pc' = "scan"
    /\ scanIdx' = 0
    /\ raw' = <<>>
    /\ structure' = <<>>
    /\ log' = <<>>
    /\ prevFs' = fs
    /\ lastOp' = NoOp
    /\ UNCHANGED <<source, target, ci, si, vi, fi, fs, fs0, denied>>

Next ==
    \/ VideoCatalogue_build
    \/ build_seasons
    \/ create_channel_directory
    \/ create_season_directory
    \/ create_symlink
    \/ Rerun

(***************************************************************************)
(* Inputs: the source directories, target trees and command lines the      *)
(* runs start from.                                                        *)
(***************************************************************************)
Video(channel, title, fulltitle, timestamp, upload_date, url) ==
    [type |-> "video", title |-> title, channel |-> channel, fulltitle |-> fulltitle,
     upload_date |-> upload_date, timestamp |-> timestamp,
     playlist_webpage_url |-> url]
NoVideo(type) ==
    [type |-> type, title |-> <<>>, channel |-> <<>>, fulltitle |-> <<>>,
     upload_date |-> [y |-> 0, d |-> 1], timestamp |-> None,
     playlist_webpage_url |-> None]

\* a metadata file named <stem><meta> and its sidecars named <stem><others[k]>
Group(json, meta, others) == [json |-> json, meta |-> meta, others |-> others]

Mp4 == <<".", "mp4">>
PlainJson == <<".", "json">>
Day(y, d) == [y |-> y, d |-> d]
ChanA == <<"A">>
ChanB == <<"B">>

\* videos that are kept, with titles that meet, a title to sanitize, a one
\* character full title of two bytes, a channel whose name is an absolute path,
\* a sidecar without extension and a metadata file not named *.info.json
KeptGroups ==
    { Group(Video(ChanA, <<"a">>, <<>>, Some(0), Day(0, 1), None), info_ext, <<Mp4>>),
      Group(Video(ChanA, <<"a">>, <<"a">>, Some(1), Day(0, 2), None), info_ext, <<>>),
      Group(Video(ChanA, <<"x">>, <<"a", "/", "b">>, None, Day(1, 1), None), info_ext, <<>>),
      Group(Video(ChanB, <<"b">>, <<"E9">>, Some(0), Day(9, 9), None), info_ext, <<>>),
      Group(Video(<<"/", "x">>, <<"a">>, <<>>, None, Day(0, 1), None), info_ext, <<>>),
      Group(Video(ChanA, <<"c">>, <<>>, Some(0), Day(0, 1), None), info_ext, << <<>> >>),
      Group(Video(ChanA, <<"d">>, <<>>, Some(0), Day(0, 1), None), PlainJson, <<Mp4>>) }

\* files that are not kept, or that end the scan: a playlist, a file that is no
\* such JSON, a short video whose upload date is no date, and a video whose
\* upload date is no date
OtherGroups ==
    { Group(NoVideo("playlist"), info_ext, <<>>),
      Group(NoVideo("bad"), info_ext, <<>>),
      Group(Video(ChanA, <<"s">>, <<>>, None, Day(0, 0),
                  Some(<<"u", "/", "shorts">>)), info_ext, <<Mp4>>),
      Group(Video(ChanA, <<"e">>, <<>>, None, Day(0, 0),
                  Some(<<"u", "/", "shorts", "/", "v">>)), info_ext, <<>>) }

Groups == KeptGroups \cup OtherGroups

Stem(i) == <<"v", ToString(i)>>

\* the files of the i-th group; a sidecar may come before its metadata file
FilesOf(i, g) ==
    [k \in 1..Len(g.others) |-> [name |-> Stem(i) \o g.others[k], content |-> NoVideo("other")]]
    \o <<[name |-> Stem(i) \o g.meta, content |-> g.json]>>

RECURSIVE SourceOf(_, _)
SourceOf(gs, i) ==
    IF i > Len(gs) THEN <<>> ELSE FilesOf(i, gs[i]) \o SourceOf(gs, i + 1)

Sources ==
    {SourceOf(gs, 1) : gs \in UNION {[1..n -> Groups] : n \in 1..MaxVideos}}

\* target trees a run may find: none; one an earlier run or someone else left,
\* with a link that points elsewhere and a file where a link is to go; one with
\* a file where the channel's directory is to go; one with a file where the
\* season's directory is to go
TargetA == push(TargetBase, ChanA)
SeasonA1 == push(TargetA, SeasonName(1))
Elsewhere == << <<"old">>, <<"a", ".", "json">> >>
Trees ==
    { <<>>,
      (TargetBase :> DirEntry) @@ (TargetA :> DirEntry) @@ (SeasonA1 :> DirEntry)
          @@ (Append(SeasonA1, <<"a", ".", "json">>) :> LinkEntry(Elsewhere))
          @@ (Append(SeasonA1, <<"a", ".", "mp4">>) :> FileEntry),
      (TargetBase :> DirEntry) @@ (TargetA :> FileEntry),
      (TargetBase :> DirEntry) @@ (TargetA :> DirEntry) @@ (SeasonA1 :> FileEntry) }

\* what the system refuses to create: nothing, the first season's directory of
\* channel A, or a link in it
Denials ==
    { {}, {SeasonA1}, {Append(SeasonA1, <<"a", ".", "mp4">>)} }

\* the target trees and refusals a run starts with: any tree when nothing is
\* refused, and a refusal on the empty tree of a non-preview run
Environments(T, D) ==
    {[tree |-> t, denied |-> {}] : t \in T}
        \cup {[tree |-> <<>>, denied |-> d] : d \in IF dry_run THEN {} ELSE D}

InitWith(S, T, D) ==
    /\ source \in S
    /\ target \in {None, Some(TargetBase)}
    /\ dry_run \in BOOLEAN
    /\ \E e \in IF target = None THEN {[tree |-> <<>>, denied |-> {}]}
                                 ELSE Environments(T, D) :
          fs0 = e.tree /\ denied = e.denied
    /\ fs = fs0
    /\ prevFs = fs0
    /\ run = 1
    /\ pc = "scan"
    /\ scanIdx = 0
    /\ raw = <<>>
    /\ structure = <<>>
    /\ ci = 0 /\ si = 0 /\ vi = 0 /\ fi = 0
    /\ lastOp = NoOp
    /\ log = <<>>
    /\ hist = None

Init == InitWith(Sources, Trees, Denials)

Spec == Init /\ [][Next]_vars

(***************************************************************************)
(* The Partitioner alone: build_seasons applied to any catalogue of at     *)
(* most MaxRecords records of two channels, dated from one tick before the *)
(* epoch to MaxTick.                                                       *)
(***************************************************************************)
Records ==
    {[date |-> t, json |-> Video(c, <<"a">>, <<>>, Some(t), Day(0, 1), None), path |-> <<>>] :
        t \in (0 - 1)..MaxTick, c \in {ChanA, ChanB}}

InitPart ==
    /\ raw \in UNION {[1..n -> Records] : n \in 1..MaxRecords}
    /\ source = <<>>
    /\ target = None
    /\ dry_run = FALSE
    /\ fs0 = <<>>
    /\ denied = {}
    /\ fs = fs0
    /\ prevFs = fs0
    /\ run = 1
    /\ pc = "seasons"
    /\ scanIdx = 0
    /\ structure = <<>>
    /\ ci = 0 /\ si = 0 /\ vi = 0 /\ fi = 0
    /\ lastOp = NoOp
    /\ log = <<>>
    /\ hist = None

NextPart == build_seasons

SpecPart == InitPart /\ [][NextPart]_vars

(***************************************************************************)
(* Properties.                                                             *)
(***************************************************************************)
\* fs when the current run started
RunStartFs == IF run = 1 THEN fs0 ELSE hist[1].fs

\* a reported step was carried out, or found its destination there
Performed(line) ==
    IF line.op = "mkdir" THEN is_dir(fs, line.dst) ELSE exists(fs, line.dst)

\* the lines of a log that are about one channel
LinesOf(l, c) ==
    LET OfChannel(line) == line.chan = c IN SelectSeq(l, OfChannel)

\* the last step was a call that wrote or tried to
WetStep == lastOp.res \notin {"None", "Preview", "Panic"}

YearsOf(vids) == {year(raw[vids[i]].date) : i \in DOMAIN vids}
Rank(y, Y) == Cardinality({z \in Y : z <= y})

\* ch is the reference partition of its channel's records
PartitionOk(ch) ==
    LET vids == by_channel(ch.channel_name)
        Y == YearsOf(vids)
        S == ch.seasons
    IN  /\ vids # <<>>
        /\ Len(S) = Cardinality(Y)
        /\ \A k \in DOMAIN S :
              /\ S[k].number = k
              /\ S[k].videos # <<>>
              /\ \A j \in DOMAIN S[k].videos :
                    Rank(year(raw[S[k].videos[j]].date), Y) = k
              /\ \A i, j \in DOMAIN S[k].videos :
                    i < j =>
                       \/ raw[S[k].videos[i]].date < raw[S[k].videos[j]].date
                       \/ /\ raw[S[k].videos[i]].date = raw[S[k].videos[j]].date
                          /\ S[k].videos[i] < S[k].videos[j]
        /\ \A n \in DOMAIN vids :
              Cardinality({kj \in (DOMAIN S) \X (DOMAIN vids) :
                              /\ kj[2] \in DOMAIN S[kj[1]].videos
                              /\ S[kj[1]].videos[kj[2]] = vids[n]}) = 1

\* C3: build_channel returns the reference partition of its records: the
\* seasons are numbered 1..k, k the number of distinct years; season i holds
\* exactly the records of the i-th smallest year that occurs, by date, records
\* of equal date in their input order; every record is in exactly one season.
C3_PartitionIsReference == \A c \in DOMAIN structure : PartitionOk(structure[c])

\* a channel whose records come out of date order, two of them with one date,
\* in two years with a year between them that has no record
C3_Witness ==
    \E c \in DOMAIN structure :
       LET vids == by_channel(structure[c].channel_name)
           Y == YearsOf(vids)
       IN  /\ Len(structure[c].seasons) = 2
           /\ \E y \in Y : y + 1 \notin Y /\ y + 2 \in Y
           /\ \E i, j \in DOMAIN vids : i < j /\ raw[vids[i]].date > raw[vids[j]].date
           /\ \E i, j \in DOMAIN vids : i < j /\ raw[vids[i]].date = raw[vids[j]].date

\* C1: after a non-preview run that ended with success, a second non-preview
\* run over the same source and target ends with success too, and leaves the
\* tree (directories, links, what each link points at) as the first run left it.
C1_Idempotent ==
    (run = 2 /\ ~dry_run /\ ~hist[1].dry) =>
        /\ fs = hist[1].fs
        /\ pc \notin {"error", "panic"}

\* the second run is over; the first made links for two channels
C1_Witness ==
    /\ run = 2 /\ ~dry_run /\ ~hist[1].dry
    /\ pc = "done"
    /\ Len(structure) = 2
    /\ \E p \in DOMAIN fs : p \notin DOMAIN fs0 /\ fs[p].kind = "link"
    /\ \E i \in DOMAIN log : log[i].op = "link" /\ fs[log[i].dst].to # log[i].src

\* C2: a preview run writes nothing, whatever the catalogue and the tree it
\* finds, and build returns success.
C2_PreviewWritesNothingAndSucceeds ==
    dry_run =>
        /\ fs = RunStartFs
        /\ (lastOp.kind # "none" => pc \notin {"error", "panic"})

\* the display title as the claim has it: fullTitle when it is longer than
\* one character
DisplayTitle(json) == IF Len(json.fulltitle) > 1 THEN json.fulltitle ELSE json.title

\* a catalogue of relative channel names and of titles of one-byte characters
PlainCatalogue ==
    \A i \in DOMAIN raw :
       /\ ~is_absolute(raw[i].json.channel)
       /\ str_len(raw[i].json.fulltitle) = Len(raw[i].json.fulltitle)

\* C4: after a non-preview run on an empty target that ended with success,
\* every sidecar of every video of every season has, in
\* <target>/<channel>/Season <N>, a link <display title, "/" replaced>.<ext>
\* that points at it.  Stated for the catalogues of relative channel names and
\* one-byte characters, where neither the place of the channel's directory nor
\* the length of fullTitle is in question.
C4_EverySidecarLinked ==
    (/\ run = 1 /\ ~dry_run /\ target # None /\ fs0 = <<>> /\ pc = "done"
     /\ PlainCatalogue) =>
        \A c \in DOMAIN structure : \A s \in DOMAIN structure[c].seasons :
        \A v \in DOMAIN structure[c].seasons[s].videos :
           LET entry == raw[structure[c].seasons[s].videos[v]]
               dir == TargetBase \o components(structure[c].channel_name)
                         \o <<SeasonName(structure[c].seasons[s].number)>>
           IN  \A f \in DOMAIN entry.path :
                  LET name == replace(DisplayTitle(entry.json), "/", "_") \o <<".">>
                                 \o extension(file_name(entry.path[f]))[1]
                      dst == Append(dir, name)
                  IN  /\ dst \in DOMAIN fs
                      /\ fs[dst] = LinkEntry(entry.path[f])

\* C5 as amended: in a non-preview run, a directory step whose destination is
\* already there as a directory, and a link step whose destination is already
\* there as anything, succeeds, changes nothing, and the run goes on.
C5_ExistingIsSuccess ==
    (/\ WetStep
     /\ IF lastOp.kind = "link" THEN exists(prevFs, lastOp.dst)
                                ELSE is_dir(prevFs, lastOp.dst)) =>
        /\ fs = prevFs
        /\ pc \in {"chan", "season", "file", "done"}

\* C5 as stated: whatever is at the destination, the step succeeds, changes
\* nothing, and the run goes on.
C5_AnyExistingIsSuccess ==
    (WetStep /\ exists(prevFs, lastOp.dst)) =>
        /\ fs = prevFs
        /\ pc \in {"chan", "season", "file", "done"}

\* a link step found a link that points elsewhere
C5_Witness ==
    /\ WetStep
    /\ lastOp.kind = "link"
    /\ lastOp.dst \in DOMAIN prevFs
    /\ prevFs[lastOp.dst] = LinkEntry(Elsewhere)
    /\ lastOp.src # Elsewhere

\* C6: a directory or link step that fails with an error other than
\* AlreadyExists ends the run in error; no later step is tried; what was there
\* before the step, and so what earlier steps made, is still there.
C6_FailFast ==
    lastOp.res \in {"NotFound", "NotADirectory", "PermissionDenied"} =>
        /\ pc = "error"
        /\ ~ENABLED Next
        /\ \A p \in DOMAIN prevFs : p \in DOMAIN fs /\ fs[p] = prevFs[p]
        /\ log # <<>> /\ log[Len(log)].dst = lastOp.dst
        /\ \A i \in 1..(Len(log) - 1) : Performed(log[i])

\* a link step is refused after the run has made directories and a link, with
\* another channel still to come
C6_Witness ==
    /\ lastOp.res = "PermissionDenied"
    /\ lastOp.kind = "link"
    /\ pc = "error"
    /\ ci < Len(structure)
    /\ \E p \in DOMAIN fs : p \notin DOMAIN fs0 /\ fs[p].kind = "link"

\* a candidate the scan keeps: a video that is no short
IsKept(file) == file.content.type = "video" /\ ~is_short(file.content)

\* a candidate that does not parse, or a kept one whose date does not resolve
ScanFails(file) ==
    \/ file.content.type = "bad"
    \/ /\ IsKept(file)
       /\ file.content.timestamp = None
       /\ file.content.upload_date.d \notin 1..TicksPerYear

\* C7: every record of the catalogue has a sidecar list that is not empty
\* and starts with the path of its own metadata file.
C7_SidecarsStartWithMetadata ==
    LET kept == SelectSeq(CandidatesOf(source), IsKept) IN
    \A i \in DOMAIN raw :
       /\ raw[i].path # <<>>
       /\ raw[i].path[1] = PathOf(kept[i])

\* the channel names of the source's records
SourceChannels == {source[i].content.channel : i \in DOMAIN source}
SeasonNames == {SeasonName(n) : n \in 1..Len(source)}

\* C8: whatever a run creates is inside the target: a directory is the
\* target, <target>/<channel> or <target>/<channel>/Season <N>, and a link is
\* a direct child of such a season directory.
C8_OutputUnderTarget ==
    \A p \in DOMAIN fs \ DOMAIN fs0 :
       /\ IsPrefix(TargetBase, p)
       /\ IF fs[p].kind = "dir"
          THEN \/ p = TargetBase
               \/ \E c \in SourceChannels :
                     \/ p = Append(TargetBase, c)
                     \/ \E n \in SeasonNames : p = TargetBase \o <<c, n>>
          ELSE \E c \in SourceChannels, n \in SeasonNames :
                  parent(p) = TargetBase \o <<c, n>>

\* C9: a preview run and a non-preview run that ends with success report,
\* for each channel, the same steps with the same paths in the same order, and
\* the non-preview run has carried out each step it reported.
C9_SameReports ==
    (run = 2 /\ pc = "done" /\ dry_run # hist[1].dry) =>
        /\ Len(log) = Len(hist[1].log)
        /\ \A c \in ChannelNames : LinesOf(log, c) = LinesOf(hist[1].log, c)
        /\ \A i \in DOMAIN log : Performed(log[i])

\* both runs are over, one a preview; they reported links for two channels
C9_Witness ==
    /\ run = 2 /\ pc = "done" /\ dry_run # hist[1].dry
    /\ Len(structure) = 2
    /\ \E i, j \in DOMAIN log :
          log[i].op = "link" /\ log[j].op = "link" /\ log[i].chan # log[j].chan

\* C10: no step on the target comes before the scan has taken every candidate
\* and every channel is partitioned; when a candidate does not parse or its
\* date does not resolve, the run ends in error without any step on the
\* target; the steps of one channel all come before the steps of the next.
C10_PhaseOrder ==
    /\ (log # <<>> \/ fs # RunStartFs) =>
          /\ scanIdx = Len(CandidatesOf(source))
          /\ Len(structure) = Cardinality(ChannelNames)
          /\ pc \notin {"scan", "seasons"}
    /\ (\E i \in DOMAIN source :
            extension(source[i].name) = Some(<<"json">>) /\ ScanFails(source[i])) =>
          /\ pc \in {"scan", "error"}
          /\ log = <<>>
          /\ structure = <<>>
          /\ fs = fs0
    /\ \A i, j, k \in DOMAIN log :
          (i < j /\ j < k /\ log[i].chan = log[k].chan) => log[j].chan = log[i].chan

\* a non-preview run is over that made directories and links for two channels
C10_Witness ==
    /\ pc = "done" /\ ~dry_run /\ run = 1
    /\ Len(raw) = Len(CandidatesOf(source))
    /\ \E i, j \in DOMAIN log :
          log[i].op = "link" /\ log[j].op = "link" /\ log[i].chan # log[j].chan
    /\ fs # fs0

====
